---- MODULE Spec2Model ----
(***************************************************************************)
(* Model of tmp/bincreator.py: generate_random_file(filename, size_gb).    *)
(*                                                                         *)
(* size_gb is a Python float, i.e. a dyadic rational m * 2^(-e); it is     *)
(* kept as the record [m, e].  Multiplying by 1024 ** 3 = 2^30 is exact in *)
(* binary floating point (an exponent shift) and int() drops the fraction  *)
(* towards zero.  The file at filename is a sequence of segments, each     *)
(* tagged with where its bytes came from ("prev": content that was there   *)
(* before the call, "rand": bytes of os.urandom), so that truncation and   *)
(* appending can be told apart.  trace records the externally visible      *)
(* operations of the call in the order they happen; prev keeps what was at *)
(* filename when the call started.                                         *)
(***************************************************************************)
EXTENDS Integers, Sequences, FiniteSets, TLC

VARIABLES size_gb, target_bytes, bytes_written, bytes_to_write, random_data,
          f, file_exists, file_data, prev, pc, err, trace

vars == <<size_gb, target_bytes, bytes_written, bytes_to_write, random_data,
          f, file_exists, file_data, prev, pc, err, trace>>

\* ---- bounds of the model ----
MaxMant == 5
MaxPrev == 2

\* ---- program constants ----
chunk_size == 1024 * 1024

\* 1024 ** 3 = 2^GiBShift
GiBShift == 30

RECURSIVE Pow2(_)
Pow2(k) == IF k = 0 THEN 1 ELSE 2 * Pow2(k - 1)

\* exponents of the sizes tried: m/256, m/1024, m/2048 GiB, m bytes, m/4 bytes
Exponents == {8, 10, 11, 30, 32}

Sizes == [m : (-MaxMant)..MaxMant, e : Exponents]

\* size_gb * (1024 ** 3): the float product, as numerator / 2^e
GiBProduct(s) ==
    IF s.e >= GiBShift THEN [m |-> s.m, e |-> s.e - GiBShift]
                       ELSE [m |-> s.m * Pow2(GiBShift - s.e), e |-> 0]

\* int(x) with the fraction rounded to the nearest integer instead of dropped
ToInt_Round(x) ==
    IF x.m >= 0 THEN (2 * x.m + Pow2(x.e)) \div (2 * Pow2(x.e))
                ELSE -((2 * (-x.m) + Pow2(x.e)) \div (2 * Pow2(x.e)))

\* int(x): truncation towards zero
ToInt(x) ==
    IF x.m >= 0 THEN x.m \div Pow2(x.e)
                ELSE -((-x.m) \div Pow2(x.e))

Min(a, b) == IF a <= b THEN a ELSE b

\* a chunk is always chunk_size bytes long
BytesToWrite_NoMin(target, written) == chunk_size

\* min(chunk_size, target_bytes - bytes_written)
BytesToWrite(target, written) == Min(chunk_size, target - written)

\* while bytes_written <= target_bytes
LoopCond_Leq(written, target) == written <= target

\* while bytes_written < target_bytes
LoopCond(written, target) == written < target

RECURSIVE FileLen(_)
FileLen(d) == IF d = <<>> THEN 0 ELSE d[1].n + FileLen(Tail(d))

Seg(src, n) == [src |-> src, n |-> n]
Ev(op, n) == [op |-> op, n |-> n]

\* appending n bytes of os.urandom output to the file
AppendBytes(d, n) == IF n = 0 THEN d ELSE Append(d, Seg("rand", n))

\* how much of a chunk of n bytes may have reached the file when f.write fails
PartialLens(n) == {p \in {0, n \div 2, n - 1} : 0 <= p /\ p < n}

\* content found at filename before the call
PrevContents == {<<>>} \cup {<<Seg("prev", n)>> : n \in 1..MaxPrev}

Init ==
    /\ size_gb \in Sizes
    /\ file_exists \in BOOLEAN
    /\ file_data \in (IF file_exists THEN PrevContents ELSE {<<>>})
    /\ prev = [exists |-> file_exists, data |-> file_data]
    /\ target_bytes = 0
    /\ bytes_written = 0
    /\ bytes_to_write = 0
    /\ random_data = 0
    /\ f = "none"
    /\ pc = "convert"
    /\ err = "none"
    /\ trace = <<>>

\* target_bytes = int(size_gb * (1024 ** 3))
Convert ==
    /\ pc = "convert"
    /\ target_bytes' = ToInt(GiBProduct(size_gb))
    /\ pc' = "open"
    /\ UNCHANGED <<prev, size_gb, bytes_written, bytes_to_write, random_data,
                   f, file_exists, file_data, err, trace>>

\* open(filename, 'ab'): the content found is kept
OpenOk_Append ==
    /\ pc = "open"
    /\ f' = "open"
    /\ file_exists' = TRUE
    /\ bytes_written' = 0
    /\ trace' = Append(trace, Ev("open", 0))
    /\ pc' = "while"
    /\ UNCHANGED <<prev, size_gb, target_bytes, bytes_to_write, random_data,
                   file_data, err>>

\* with open(filename, 'wb') as f: bytes_written = 0
OpenOk ==
    /\ pc = "open"
    /\ f' = "open"
    /\ file_exists' = TRUE
    /\ file_data' = <<>>
    /\ bytes_written' = 0
    /\ trace' = Append(trace, Ev("open", 0))
    /\ pc' = "while"
    /\ UNCHANGED <<prev, size_gb, target_bytes, bytes_to_write, random_data, err>>

\* open raises: nothing was opened, the file system is as it was
OpenFail ==
    /\ pc = "open"
    /\ err' = "open"
    /\ trace' = Append(trace, Ev("open_fail", 0))
    /\ pc' = "raised"
    /\ UNCHANGED <<prev, size_gb, target_bytes, bytes_written, bytes_to_write,
                   random_data, f, file_exists, file_data>>

\* the loop test and, when it holds, the computation of bytes_to_write
While ==
    /\ pc = "while"
    /\ IF LoopCond(bytes_written, target_bytes)
          THEN /\ bytes_to_write' = BytesToWrite(target_bytes, bytes_written)
               /\ pc' = "urandom"
          ELSE /\ pc' = "exit"
               /\ UNCHANGED bytes_to_write
    /\ UNCHANGED <<prev, size_gb, target_bytes, bytes_written, random_data,
                   f, file_exists, file_data, err, trace>>

\* random_data = os.urandom(bytes_to_write)
UrandomOk ==
    /\ pc = "urandom"
    /\ random_data' = bytes_to_write
    /\ trace' = Append(trace, Ev("urandom", bytes_to_write))
    /\ pc' = "write"
    /\ UNCHANGED <<prev, size_gb, target_bytes, bytes_written, bytes_to_write,
                   f, file_exists, file_data, err>>

\* os.urandom raises: the with block is left with the error pending
UrandomFail ==
    /\ pc = "urandom"
    /\ err' = "urandom"
    /\ trace' = Append(trace, Ev("urandom_fail", bytes_to_write))
    /\ pc' = "exit"
    /\ UNCHANGED <<prev, size_gb, target_bytes, bytes_written, bytes_to_write,
                   random_data, f, file_exists, file_data>>

\* f.write(random_data); bytes_written += bytes_to_write
WriteOk ==
    /\ pc = "write"
    /\ f = "open"
    /\ file_data' = AppendBytes(file_data, random_data)
    /\ bytes_written' = bytes_written + bytes_to_write
    /\ trace' = Append(trace, Ev("write", random_data))
    /\ pc' = "while"
    /\ UNCHANGED <<prev, size_gb, target_bytes, bytes_to_write, random_data,
                   f, file_exists, err>>

\* f.write raises and the handler removes the unfinished file
WriteFail_Cleanup ==
    /\ pc = "write"
    /\ f = "open"
    /\ file_data' = <<>>
    /\ file_exists' = FALSE
    /\ err' = "write"
    /\ trace' = Append(trace, Ev("write_fail", 0))
    /\ pc' = "exit"
    /\ UNCHANGED <<prev, size_gb, target_bytes, bytes_written, bytes_to_write,
                   random_data, f>>

\* f.write raises and the handle is not released
WriteFail_Leak ==
    /\ pc = "write"
    /\ f = "open"
    /\ \E p \in PartialLens(random_data) :
          /\ file_data' = AppendBytes(file_data, p)
          /\ trace' = Append(trace, Ev("write_fail", p))
    /\ err' = "write"
    /\ pc' = "raised"
    /\ UNCHANGED <<prev, size_gb, target_bytes, bytes_written, bytes_to_write,
                   random_data, f, file_exists>>

\* f.write raises (disk full, I/O error): a proper prefix of the chunk may
\* have reached the file; bytes_written is not updated
WriteFail ==
    /\ pc = "write"
    /\ f = "open"
    /\ \E p \in PartialLens(random_data) :
          /\ file_data' = AppendBytes(file_data, p)
          /\ trace' = Append(trace, Ev("write_fail", p))
    /\ err' = "write"
    /\ pc' = "exit"
    /\ UNCHANGED <<prev, size_gb, target_bytes, bytes_written, bytes_to_write,
                   random_data, f, file_exists>>

\* the file is closed and the notice is printed whether or not an error is
\* pending
WithExit_Finally ==
    /\ pc = "exit"
    /\ f = "open"
    /\ f' = "closed"
    /\ trace' = Append(trace, Ev("close", 0))
    /\ pc' = "print"
    /\ UNCHANGED <<prev, size_gb, target_bytes, bytes_written, bytes_to_write,
                   random_data, file_exists, file_data, err>>

\* leaving the with block: f is closed, a pending error is re-raised
WithExit ==
    /\ pc = "exit"
    /\ f = "open"
    /\ f' = "closed"
    /\ trace' = Append(trace, Ev("close", 0))
    /\ pc' = IF err = "none" THEN "print" ELSE "raised"
    /\ UNCHANGED <<prev, size_gb, target_bytes, bytes_written, bytes_to_write,
                   random_data, file_exists, file_data, err>>

\* print(f"File '{filename}' of {size_gb}GB has been created.")
PrintNotice ==
    /\ pc = "print"
    /\ trace' = Append(trace, Ev("print", 0))
    /\ pc' = "done"
    /\ UNCHANGED <<prev, size_gb, target_bytes, bytes_written, bytes_to_write,
                   random_data, f, file_exists, file_data, err>>

Next ==
    \/ Convert
    \/ OpenOk
    \/ OpenFail
    \/ While
    \/ UrandomOk
    \/ UrandomFail
    \/ WriteOk
    \/ WriteFail
    \/ WithExit
    \/ PrintNotice

Spec == Init /\ [][Next]_vars

\* the call runs on the calling thread without suspension points: it keeps
\* taking steps until it returns or raises
FairSpec == Spec /\ WF_vars(Next)

\* ---- observations on the trace ----
Count(op) == Cardinality({i \in DOMAIN trace : trace[i].op = op})

IsWrite(ev) == ev.op = "write"

\* the lengths of the completed writes, in order
WriteSizes ==
    LET w == SelectSeq(trace, IsWrite) IN [i \in 1..Len(w) |-> w[i].n]

\* the lengths of the completed os.urandom requests, in order
IsRequest(ev) == ev.op = "urandom"

RequestSizes ==
    LET r == SelectSeq(trace, IsRequest) IN [i \in 1..Len(r) |-> r[i].n]

Failed == err \in {"urandom", "write"}

NoPrevBytes(d) == \A i \in DOMAIN d : d[i].src = "rand"

\* n = floor(s.m * 2^30 / 2^(s.e)), with the common power of two cancelled
IsFloorOfSize(n, s) ==
    IF s.e >= GiBShift
       THEN /\ n * Pow2(s.e - GiBShift) <= s.m
            /\ s.m < (n + 1) * Pow2(s.e - GiBShift)
       ELSE n = s.m * Pow2(GiBShift - s.e)

CeilDiv(a, b) == (a + b - 1) \div b

\* C1: a call with a non-negative size_gb that returns normally leaves the
\* file existing with exactly floor(size_gb * 1024^3) bytes, all of them
\* random bytes; size_gb = 0 leaves an existing empty file.
C1_ExactLength ==
    (pc = "done" /\ size_gb.m >= 0) =>
        /\ file_exists
        /\ IsFloorOfSize(FileLen(file_data), size_gb)
        /\ (size_gb.m = 0 => file_data = <<>>)

C1_Witness ==
    /\ pc = "done"
    /\ size_gb = [m |-> 5, e |-> 32]
    /\ FileLen(file_data) = 1

\* C2: a call with a negative size_gb does not finish as a successful run.
C2_NegativeFails == size_gb.m < 0 => pc # "done"

\* C3 (as stated): whenever target_bytes < chunk_size (for a valid, that is
\* non-negative, size_gb), a run that returns normally has performed exactly
\* one write, of target_bytes bytes.
C3_Original ==
    (pc = "done" /\ size_gb.m >= 0 /\ target_bytes < chunk_size)
        => WriteSizes = <<target_bytes>>

\* C3 (amended): a run that returns normally has performed exactly one write,
\* of target_bytes bytes, when 0 < target_bytes < chunk_size, and no write at
\* all when target_bytes <= 0.
C3_OneShortWrite ==
    pc = "done" =>
        /\ (0 < target_bytes /\ target_bytes < chunk_size)
              => WriteSizes = <<target_bytes>>
        /\ target_bytes <= 0 => WriteSizes = <<>>

C3_Witness ==
    /\ pc = "done"
    /\ target_bytes = chunk_size \div 2
    /\ WriteSizes = <<chunk_size \div 2>>

\* C4: for target_bytes > 0 a run that returns normally has performed
\* ceil(target_bytes / chunk_size) writes, all of chunk_size bytes except
\* that the last is target_bytes mod chunk_size bytes when that is not 0.
C4_ChunkPattern ==
    (pc = "done" /\ target_bytes > 0) =>
        LET w == WriteSizes IN
        /\ Len(w) = CeilDiv(target_bytes, chunk_size)
        /\ \A i \in 1..(Len(w) - 1) : w[i] = chunk_size
        /\ w[Len(w)] = IF target_bytes % chunk_size = 0
                          THEN chunk_size
                          ELSE target_bytes % chunk_size

C4_Witness ==
    /\ pc = "done"
    /\ target_bytes % chunk_size # 0
    /\ Len(WriteSizes) >= 3

\* C5: content found at filename is truncated at open: from the open on none
\* of the previous bytes remain, and after a run that returns normally the
\* length is the new target, whatever the previous length was.
C5_Truncates ==
    /\ f # "none" => NoPrevBytes(file_data)
    /\ pc = "done" =>
          FileLen(file_data) = (IF target_bytes > 0 THEN target_bytes ELSE 0)

C5_Witness ==
    /\ pc = "done"
    /\ FileLen(prev.data) = MaxPrev
    /\ target_bytes = 1

\* C6: the completion notice is printed exactly once in a run that returns
\* normally, as the last operation, right after the close and with all
\* chunks written; it is never printed in a run in which open, os.urandom or
\* f.write failed.
C6_NoticeOnce ==
    /\ Count("print") <= 1
    /\ pc = "done" => (Count("print") = 1 /\ err = "none")
    /\ \A i \in DOMAIN trace :
          trace[i].op = "print" =>
              /\ i = Len(trace)
              /\ i > 1
              /\ trace[i - 1].op = "close"
              /\ f = "closed"
              /\ bytes_written >= target_bytes
    /\ err # "none" => Count("print") = 0

C6_Witness ==
    /\ pc = "done"
    /\ Count("print") = 1
    /\ Count("write") >= 2

\* C7: once the file has been opened, every way out of the call (return, or
\* an error of os.urandom or f.write) has closed the handle exactly once; it
\* is never closed twice and nothing is requested or written after the close.
C7_ClosedOnce ==
    /\ Count("close") <= 1
    /\ (pc \in {"print", "done", "raised"} /\ Count("open") = 1) =>
          (Count("close") = 1 /\ f = "closed")
    /\ \A i \in DOMAIN trace :
          trace[i].op = "close" =>
              \A j \in (i + 1)..Len(trace) : trace[j].op = "print"
    /\ Count("open") = 0 => (f = "none" /\ Count("close") = 0)

C7_Witness ==
    /\ pc = "raised"
    /\ err = "write"
    /\ Count("write") >= 1
    /\ Count("close") = 1

\* the part of C8 on which the statement and its amendment agree: after a
\* failure of os.urandom or f.write nothing more is requested or written,
\* the call only closes the file and raises, and the file is not removed
AbortsAtFailure ==
    /\ pc \in {"exit", "raised"}
    /\ Count("urandom_fail") + Count("write_fail") = 1
    /\ \A i \in DOMAIN trace :
          trace[i].op \in {"urandom_fail", "write_fail"} =>
              \A j \in (i + 1)..Len(trace) : trace[j].op = "close"
    /\ file_exists
    /\ Len(WriteSizes) <= Len(file_data)
    /\ \A i \in 1..Len(WriteSizes) : file_data[i] = Seg("rand", WriteSizes[i])

\* C8 (as stated): after a failure at iteration k the call aborts and the
\* file holds exactly the k-1 chunks written before the failure.
C8_Original ==
    Failed => (AbortsAtFailure /\ FileLen(file_data) = bytes_written)

\* C8 (amended): after a failure at iteration k the call aborts and the file
\* holds the k-1 chunks written before the failure, followed, when it was
\* f.write that failed, by at most a proper prefix of chunk k.
C8_PartialFileRemains ==
    Failed =>
        /\ AbortsAtFailure
        /\ bytes_written <= FileLen(file_data)
        /\ FileLen(file_data) < bytes_written + bytes_to_write
        /\ err = "urandom" => FileLen(file_data) = bytes_written

C8_Witness ==
    /\ pc = "raised"
    /\ err = "write"
    /\ Count("write") >= 1
    /\ FileLen(file_data) > bytes_written

\* C9: for target_bytes >= 0, unless a step fails the call reaches done;
\* every iteration increases bytes_written by at least 1; once no bytes
\* remain, none remain ever after; with target_bytes = 0 done is reached
\* without any iteration.
C9_Terminates ==
    /\ <>(pc = "done" \/ err # "none")
    /\ [][(pc = "write" /\ pc' = "while")
             => bytes_written' >= bytes_written + 1]_vars
    /\ [][(f # "none" /\ target_bytes >= 0 /\ bytes_written = target_bytes)
             => bytes_written' = target_bytes']_vars
    /\ []((pc = "done" /\ target_bytes = 0)
             => (Count("urandom") = 0 /\ Count("write") = 0))
    /\ []((pc = "done" /\ target_bytes >= 0) => bytes_written = target_bytes)

C9_Witness ==
    /\ pc = "done"
    /\ target_bytes > 0
    /\ Count("write") >= 2

\* C10: in a run with target_bytes >= 0, the file length equals
\* bytes_written as long as no step has failed, bytes_written stays within
\* 0..target_bytes and the file never exceeds the target, the file length
\* never decreases once the file is open, and every request and every write
\* is of 1..chunk_size bytes.
C10_LoopInvariant ==
    /\ []((f # "none" /\ target_bytes >= 0) =>
            /\ err = "none" => FileLen(file_data) = bytes_written
            /\ 0 <= bytes_written
            /\ bytes_written <= target_bytes
            /\ FileLen(file_data) <= target_bytes
            /\ \A i \in DOMAIN trace :
                  trace[i].op \in {"urandom", "write"} =>
                      (1 <= trace[i].n /\ trace[i].n <= chunk_size)
            /\ pc = "write" => (1 <= random_data /\ random_data <= chunk_size))
    /\ [][f # "none" => FileLen(file_data') >= FileLen(file_data)]_vars

C10_Witness ==
    /\ pc = "while"
    /\ bytes_written = 2 * chunk_size
    /\ target_bytes > bytes_written

====
